---------------------------- MODULE Spec2Model ----------------------------
(***************************************************************************)
(* The avocado sales API of src/server.js: an Express server over one      *)
(* Mongoose collection.  The state is the collection, the position of the  *)
(* optional startup seed, and the HTTP requests received so far.  Every    *)
(* `await` of the source is a point where other handlers, and the seed,    *)
(* may run: a handler is one action up to its store call and one action    *)
(* for the store call together with the continuation that answers.         *)
(***************************************************************************)
EXTENDS Integers, Sequences, FiniteSets, TLC

VARIABLES
    store,      \* the documents of the Avocado collection
    proc,       \* the process: "boot", "listening" or "crashed"
    resetDb,    \* process.env.RESET_DB is set
    seedPc,     \* seedDatabase: "idle", "deleteMany", "insertMany", "done", "failed"
    seedIdx,    \* how many seed documents insertMany has written
    log,        \* what console.log / console.error have printed
    reqs        \* the requests received, in order of arrival

vars == <<store, proc, resetDb, seedPc, seedIdx, log, reqs>>

---------------------------------------------------------------------------
(* JavaScript values, as far as request bodies, query strings and path     *)
(* segments carry them.  A number is kept by its decimal text.             *)

Undefined == [t |-> "undefined", v |-> ""]
Null      == [t |-> "null", v |-> ""]
Num(s)    == [t |-> "number", v |-> s]
Str(s)    == [t |-> "string", v |-> s]

\* !x is false: the values `if (x)` and `!x` treat as present.
TruthyZeroOk(x) ==
    ~ \/ x.t \in {"undefined", "null"}
      \/ x.t = "number" /\ x.v = "NaN"
      \/ x.t = "string" /\ x.v = ""

Truthy(x) ==
    ~ \/ x.t \in {"undefined", "null"}
      \/ x.t = "number" /\ x.v \in {"0", "NaN"}
      \/ x.t = "string" /\ x.v = ""

\* Number(s) on the string literals the model uses.
NumericText ==
    ("0" :> "0") @@ ("1" :> "1") @@ ("2" :> "2") @@ ("3" :> "3") @@
    ("4" :> "4") @@ ("03" :> "3") @@ ("02" :> "2")

StringToNumber(s) ==
    IF s = "" THEN "0"
    ELSE IF s \in DOMAIN NumericText THEN NumericText[s]
    ELSE "NaN"

ToNumber(x) ==
    CASE x.t = "number"    -> x
      [] x.t = "string"    -> Num(StringToNumber(x.v))
      [] x.t = "null"      -> Num("0")
      [] OTHER             -> Num("NaN")

---------------------------------------------------------------------------
(* AvocadoSchema: eight required paths, id unique.                         *)

Fields == {"id", "date", "region", "averagePrice", "totalVolume",
           "smallBags", "largeBags", "xLargeBags"}

AvocadoSchema ==
    [f \in Fields |-> IF f \in {"date", "region"} THEN "String" ELSE "Number"]

\* Mongoose's cast of a value to a path of type Number: a numeric string
\* becomes its number, "" becomes null, NaN is a CastError.
CastNumber(x) ==
    CASE x.t \in {"undefined", "null"} -> [ok |-> TRUE, val |-> x]
      [] x = Str("")                   -> [ok |-> TRUE, val |-> Null]
      [] OTHER ->
           LET n == ToNumber(x)
           IN  IF n.v = "NaN" THEN [ok |-> FALSE, val |-> x]
                              ELSE [ok |-> TRUE, val |-> n]

\* Mongoose's cast of a value to a path of type String.
CastString(x) ==
    CASE x.t = "number" -> [ok |-> TRUE, val |-> Str(x.v)]
      [] OTHER          -> [ok |-> TRUE, val |-> x]

Cast(f, x) == IF AvocadoSchema[f] = "Number" THEN CastNumber(x) ELSE CastString(x)

\* required: true
Required(f, x) ==
    /\ x.t \notin {"undefined", "null"}
    /\ AvocadoSchema[f] = "String" => x.v # ""

\* new Avocado({...}): the document of a request body.
NewAvocado(body) == [f \in Fields |-> Cast(f, body[f]).val]

\* The validation save() runs before it writes.
Validates(body) ==
    \A f \in Fields : Cast(f, body[f]).ok /\ Required(f, Cast(f, body[f]).val)

---------------------------------------------------------------------------
(* The collection.                                                         *)

\* Avocado.find(query) / Avocado.findOne(query): equality on every key of
\* the filter, each cast to its path.
QueryCasts(query) == \A k \in DOMAIN query : Cast(k, query[k]).ok

Matching(docs, query) ==
    {d \in docs : \A k \in DOMAIN query : d[k] = Cast(k, query[k]).val}

\* insertOne under the unique index on id: a taken id is E11000 and nothing
\* is written.
InsertOneUpsert(docs, doc) ==
    [err |-> "", docs |-> {d \in docs : d["id"] # doc["id"]} \cup {doc}]

InsertOne(docs, doc) ==
    IF \E d \in docs : d["id"] = doc["id"]
    THEN [err |-> "E11000", docs |-> docs]
    ELSE [err |-> "", docs |-> docs \cup {doc}]

---------------------------------------------------------------------------
(* Documents and inputs of the model.                                      *)

MkBody(id, date, region, n) ==
    [f \in Fields |->
        CASE f = "id"     -> id
          [] f = "date"   -> date
          [] f = "region" -> region
          [] OTHER        -> n]

Doc(i, d, r) == MkBody(Num(i), Str(d), Str(r), Num("1"))

\* require("./data/avocado-sales.json"): the fixed seed dataset.
avocadoSalesData == << Doc("1", "d1", "r1"), Doc("2", "d2", "r2") >>

SeedDocs == {avocadoSalesData[i] : i \in 1..Len(avocadoSalesData)}
SeedIds  == {d["id"] : d \in SeedDocs}

\* A document an earlier run of the service left in the collection.
Prior == Doc("4", "d2", "r1")

---------------------------------------------------------------------------
(* Requests and responses.                                                 *)

NoError == [msg |-> "", arg |-> ""]

\* A request as the handler holds it: what it was sent (req.query,
\* req.params or req.body), where the handler stands, the exception its
\* store call raised, and what res.status(..).json(..) has sent.
Request(kind, inp) ==
    [kind |-> kind, inp |-> inp, pc |-> "await", err |-> "", sent |-> 0,
     status |-> 0, error |-> NoError, data |-> {}, seen |-> {}]

\* res.status(status).json(...): the first response is the one the client
\* gets.
Reply(q, status, error, data) ==
    IF q.sent = 0
    THEN [q EXCEPT !.sent = 1, !.status = status, !.error = error, !.data = data]
    ELSE [q EXCEPT !.sent = @ + 1]

Done(q) == [q EXCEPT !.pc = "done"]

Posts == {r \in DOMAIN reqs : reqs[r].kind = "post"}
Gets  == {r \in DOMAIN reqs : reqs[r].kind = "get"}
Lists == {r \in DOMAIN reqs : reqs[r].kind = "list"}

---------------------------------------------------------------------------
(* Startup: the module's top level.                                        *)

\* Lines 43-55 and 136-138 run in one turn of the event loop: the seed data
\* is loaded, seedDatabase() runs up to its first await, the server
\* listens.  A require that throws ends the process there.
Start ==
    /\ proc = "boot"
    /\ \E loaded \in BOOLEAN :
         IF resetDb /\ ~loaded
         THEN /\ proc' = "crashed"
              /\ UNCHANGED <<seedPc, log>>
         ELSE /\ proc' = "listening"
              /\ seedPc' = IF resetDb THEN "deleteMany" ELSE seedPc
              /\ log' = log \cup {"Server running"}
    /\ UNCHANGED <<store, resetDb, seedIdx, reqs>>

\* await Avocado.deleteMany()
SeedDeleteMany ==
    /\ seedPc = "deleteMany"
    /\ \E fails \in BOOLEAN :
         IF fails
         THEN /\ seedPc' = "failed"
              /\ log' = log \cup {"Failed to seed database"}
              /\ UNCHANGED store
         ELSE /\ seedPc' = "insertMany"
              /\ store' = {}
              /\ UNCHANGED log
    /\ UNCHANGED <<proc, resetDb, seedIdx, reqs>>

\* await Avocado.insertMany(avocadoSalesData): the documents are written in
\* order, one write each, and the first write that fails ends it.
SeedInsertMany ==
    /\ seedPc = "insertMany"
    /\ \E fails \in BOOLEAN :
         LET res == InsertOne(store, avocadoSalesData[seedIdx + 1])
         IN  IF fails \/ res.err # ""
             THEN /\ seedPc' = "failed"
                  /\ log' = log \cup {"Failed to seed database"}
                  /\ UNCHANGED <<store, seedIdx>>
             ELSE /\ store' = res.docs
                  /\ seedIdx' = seedIdx + 1
                  /\ IF seedIdx' = Len(avocadoSalesData)
                     THEN /\ seedPc' = "done"
                          /\ log' = log \cup {"Database seeded successfully!"}
                     ELSE UNCHANGED <<seedPc, log>>
    /\ UNCHANGED <<proc, resetDb, reqs>>

---------------------------------------------------------------------------
(* GET /avocadoSalesData                                                   *)

\* const query = {}; if (date) query.date = date; if (region) ...
BuildQueryDateOnly(qs) ==
    [k \in {k \in {"date"} : Truthy(qs[k])} |-> qs[k]]

BuildQuery(qs) ==
    [k \in {k \in {"date", "region"} : Truthy(qs[k])} |-> qs[k]]

ListFoundAlways(avocados) == [status |-> 200, error |-> NoError, data |-> avocados]

ListFound(avocados) ==
    IF avocados # {}
    THEN [status |-> 200, error |-> NoError, data |-> avocados]
    ELSE [status |-> 404,
          error |-> [msg |-> "No avocado sales data found for the given filters",
                     arg |-> ""],
          data |-> {}]

\* catch (err) of the two GET handlers.
ReadCatch(err) ==
    [status |-> 500, error |-> [msg |-> "Failed to retrieve data", arg |-> err],
     data |-> {}]

RecvList(qs, max) ==
    /\ proc = "listening"
    /\ Len(reqs) < max
    /\ reqs' = Append(reqs, Request("list", qs))
    /\ UNCHANGED <<store, proc, resetDb, seedPc, seedIdx, log>>

\* await Avocado.find(query) and the lines after it.
Find(r) ==
    /\ reqs[r].kind = "list" /\ reqs[r].pc = "await"
    /\ \E fails \in BOOLEAN :
         LET query == BuildQuery(reqs[r].inp)
             err   == IF ~QueryCasts(query) THEN "CastError"
                      ELSE IF fails THEN "StoreError" ELSE ""
             res   == IF err # "" THEN ReadCatch(err)
                      ELSE ListFound(Matching(store, query))
         IN  reqs' = [reqs EXCEPT ![r] =
                 Done(Reply([@ EXCEPT !.err = err], res.status, res.error, res.data))]
    /\ UNCHANGED <<store, proc, resetDb, seedPc, seedIdx, log>>

---------------------------------------------------------------------------
(* GET /avocadoSalesData/:id                                               *)

GetFound(id, found) ==
    IF found # {}
    THEN [status |-> 200, error |-> NoError, data |-> found]
    ELSE [status |-> 404,
          error |-> [msg |-> "No avocado sales data found for ID", arg |-> id.v],
          data |-> {}]

RecvGet(seg, max) ==
    /\ proc = "listening"
    /\ Len(reqs) < max
    /\ reqs' = Append(reqs,
         [Request("get", [id |-> Str(seg)]) EXCEPT
            !.seen = {c \in Posts : reqs[c].sent > 0 /\ reqs[c].status = 201}])
    /\ UNCHANGED <<store, proc, resetDb, seedPc, seedIdx, log>>

\* await Avocado.findOne({ id: Number(id) }) and the lines after it.
FindOne(r) ==
    /\ reqs[r].kind = "get" /\ reqs[r].pc = "await"
    /\ \E fails \in BOOLEAN :
         LET id    == reqs[r].inp.id
             query == [k \in {"id"} |-> ToNumber(id)]
             err   == IF ~QueryCasts(query) THEN "CastError"
                      ELSE IF fails THEN "StoreError" ELSE ""
             hits  == Matching(store, query)
         IN  \E found \in IF err # "" \/ hits = {} THEN {{}} ELSE {{d} : d \in hits} :
               LET res == IF err # "" THEN ReadCatch(err) ELSE GetFound(id, found)
               IN  reqs' = [reqs EXCEPT ![r] =
                     Done(Reply([@ EXCEPT !.err = err],
                                res.status, res.error, res.data))]
    /\ UNCHANGED <<store, proc, resetDb, seedPc, seedIdx, log>>

---------------------------------------------------------------------------
(* POST /avocadoSalesData                                                  *)

\* if (!id || !date || ... || !xLargeBags)
AllFieldsPresent(body) == \A f \in Fields : Truthy(body[f])

PostCatchNoDuplicate(err) ==
    [status |-> 400,
     error |-> [msg |-> "Failed to create avocado sale entry", arg |-> err],
     data |-> {}]

\* catch (err) of the POST handler.
PostCatch(err) ==
    IF err = "E11000"
    THEN [status |-> 409,
          error |-> [msg |-> "Duplicate ID: An entry with this ID already exists",
                     arg |-> ""],
          data |-> {}]
    ELSE [status |-> 400,
          error |-> [msg |-> "Failed to create avocado sale entry", arg |-> err],
          data |-> {}]

\* Lines 105-110: the handler up to its store call.
RecvPost(body, max) ==
    /\ proc = "listening"
    /\ Len(reqs) < max
    /\ reqs' = Append(reqs,
         IF ~AllFieldsPresent(body)
         THEN Done(Reply(Request("post", body), 400,
                         [msg |-> "All fields are required", arg |-> ""], {}))
         ELSE Request("post", body))
    /\ UNCHANGED <<store, proc, resetDb, seedPc, seedIdx, log>>

\* await newAvocado.save() and the lines after it: validation, then the
\* write, then the response.
Save(r) ==
    /\ reqs[r].kind = "post" /\ reqs[r].pc = "await"
    /\ \E fails \in BOOLEAN :
         LET body == reqs[r].inp
             doc  == NewAvocado(body)
             ins  == InsertOne(store, doc)
             err  == IF ~Validates(body) THEN "ValidationError"
                     ELSE IF fails THEN "StoreError" ELSE ins.err
             res  == IF err # "" THEN PostCatch(err)
                     ELSE [status |-> 201, error |-> NoError, data |-> {doc}]
         IN  /\ store' = IF err = "" THEN ins.docs ELSE store
             /\ reqs' = [reqs EXCEPT ![r] =
                   Done(Reply([@ EXCEPT !.err = err],
                              res.status, res.error, res.data))]
    /\ UNCHANGED <<proc, resetDb, seedPc, seedIdx, log>>

---------------------------------------------------------------------------
(* Specifications.                                                         *)

MaxRequests == 2
MaxProbes == 1

InitWith(stores) ==
    /\ store \in stores
    /\ proc = "boot"
    /\ resetDb \in BOOLEAN
    /\ seedPc = "idle"
    /\ seedIdx = 0
    /\ log = {}
    /\ reqs = << >>

Step(bodies, segs, queries, max) ==
    \/ Start
    \/ SeedDeleteMany
    \/ SeedInsertMany
    \/ \E qs \in queries : RecvList(qs, max)
    \/ \E seg \in segs : RecvGet(seg, max)
    \/ \E body \in bodies : RecvPost(body, max)
    \/ \E r \in DOMAIN reqs : Find(r)
    \/ \E r \in DOMAIN reqs : FindOne(r)
    \/ \E r \in DOMAIN reqs : Save(r)

Query(d, r) == [date |-> d, region |-> r]

\* Concurrent clients of a collection an earlier run has left a document in.
Bodies ==
    {MkBody(Num("3"), Str("d1"), Str("r1"), Num("1")),
     MkBody(Num("3"), Str("d1"), Str("r2"), Num("1")),
     MkBody(Num("2"), Str("d1"), Str("r1"), Num("1")),
     MkBody(Num("3"), Str("d1"), Str("r1"), Str("abc")),
     MkBody(Num("3"), Str("d1"), Str("r1"), Num("0"))}
Segs    == {"03", "abc"}
Queries == {Query(Undefined, Str("r1"))}

Init == InitWith({{Prior}})
Next == Step(Bodies, Segs, Queries, MaxRequests)
Spec == Init /\ [][Next]_vars

\* One client probing the create endpoint with every shape of body.
B0 == MkBody(Num("3"), Str("d1"), Str("r1"), Num("1"))
ProbeValues == {Undefined, Null, Num("0"), Str(""), Str("abc"), Str("02"), Num("7")}
ProbeBodies == {B0} \cup {[B0 EXCEPT ![f] = v] : f \in Fields, v \in ProbeValues}

InitCreate == InitWith({{}, {Doc("3", "d2", "r2")}})
NextCreate == Step(ProbeBodies, {"3"}, {Query(Undefined, Undefined)}, MaxProbes)
SpecCreate == InitCreate /\ [][NextCreate]_vars

\* One client listing a collection of any content with every shape of query.
Shelf == {Doc("1", "d1", "r1"), Doc("2", "d1", "r2"), Doc("3", "d2", "r1"),
          Doc("4", "d2", "r2")}
ProbeParams(lit) == {Undefined, Str(""), Str(lit), Str("zz")}
ProbeQueries == {Query(d, r) : d \in ProbeParams("d1"), r \in ProbeParams("r1")}

InitList == InitWith(SUBSET Shelf)
NextList == Step({B0}, {"3"}, ProbeQueries, MaxProbes)
SpecList == InitList /\ [][NextList]_vars

---------------------------------------------------------------------------
(* Properties.                                                             *)

Falsy == {Num("0"), Str(""), Null, Undefined}

\* The request r is new in this step, or its handler moved in it.
Moved(r) == r \notin DOMAIN reqs \/ reqs[r] # reqs'[r]

\* The request r gets its response in this step.
Answered(r) ==
    /\ r \notin DOMAIN reqs \/ reqs[r].sent = 0
    /\ reqs'[r].sent > 0

\* The store call of list request r returns, without a failure, in this step.
ListReturns(r) ==
    /\ reqs[r].kind = "list" /\ reqs[r].pc = "await"
    /\ reqs'[r].pc = "done" /\ reqs'[r].err = ""

\* A query parameter that is in the query string / that has a value there.
Present(x)  == x # Undefined
Supplied(x) == x.t = "string" /\ x.v # ""

UniqueIds == \A d, e \in store : d["id"] = e["id"] => d = e

\* Ids only clients write: not in the seed data, not left by an earlier run.
FreeIds == {NewAvocado(b)["id"] : b \in Bodies} \ (SeedIds \cup {Prior["id"]})

\* The creates of id k that passed the handler's validation and whose save()
\* reached the unique index.
SameIdCreates(k) ==
    {r \in Posts : /\ reqs[r].error.msg # "All fields are required"
                   /\ reqs[r].err \notin {"ValidationError", "StoreError"}
                   /\ NewAvocado(reqs[r].inp)["id"] = k}

\* C1: of the validated creates of one id that no one else writes, once all
\* are answered, exactly one got 201 and every other got 409; and the store
\* never holds two records with the same id.
C1_ExactlyOneCreated ==
    /\ UniqueIds
    /\ \A k \in FreeIds :
         LET S == SameIdCreates(k)
         IN  (S # {} /\ \A r \in S : reqs[r].pc = "done") =>
               /\ Cardinality({r \in S : reqs[r].status = 201}) = 1
               /\ \A r \in S : reqs[r].status \in {201, 409}

\* C2: a get-by-id received after a create of that id was answered 201, and
\* whose store query did not fail, is answered 200 with the eight values
\* that create submitted.
C2_CreatedIsReadBack ==
    \A g \in Gets :
      (reqs[g].pc = "done" /\ reqs[g].err = "") =>
        \A c \in reqs[g].seen :
          ToNumber(reqs[g].inp.id) = NewAvocado(reqs[c].inp)["id"] =>
            /\ reqs[g].status = 200
            /\ reqs[g].data = {reqs[c].inp}

\* C3: a create whose body has a required field that is 0, "", null or
\* omitted is answered 400 in the step that receives it, that step leaves the
\* store as it was, and the request never reaches a store call.
C3_FalsyFieldRejected ==
    [][\A r \in DOMAIN reqs' :
         (reqs'[r].kind = "post" /\ \E f \in Fields : reqs'[r].inp[f] \in Falsy) =>
           /\ reqs'[r].pc = "done"
           /\ reqs'[r].sent = 1
           /\ reqs'[r].status = 400
           /\ reqs'[r].error.msg = "All fields are required"
           /\ Moved(r) => store' = store]_vars

C3_Witness ==
    \E r \in Posts :
      /\ reqs[r].inp["totalVolume"] = Num("0")
      /\ reqs[r].status = 400
      /\ store # {}

\* C4 as claimed: the array a list request returns is exactly the stored
\* records that equal every parameter present in the query string.
C4_ListMatchesPresent ==
    [][\A r \in DOMAIN reqs :
         ListReturns(r) =>
           reqs'[r].data =
             {d \in store : \A k \in {"date", "region"} :
                Present(reqs[r].inp[k]) => d[k] = reqs[r].inp[k]}]_vars

\* C4 amended: the array a list request returns is exactly the stored
\* records that equal every parameter given a non-empty value; a parameter
\* that is absent or empty constrains nothing.
C4_ListMatchesSupplied ==
    [][\A r \in DOMAIN reqs :
         ListReturns(r) =>
           reqs'[r].data =
             {d \in store : \A k \in {"date", "region"} :
                Supplied(reqs[r].inp[k]) => d[k] = reqs[r].inp[k]}]_vars

C4_Witness ==
    \E r \in Lists :
      /\ Supplied(reqs[r].inp["date"]) /\ Supplied(reqs[r].inp["region"])
      /\ reqs[r].status = 200
      /\ reqs[r].data # {}
      /\ \E d \in store : d \notin reqs[r].data

\* C5: a list request whose store query succeeds is answered 200 with a
\* non-empty array exactly when some stored record matches its filter, and
\* 404 with an error message exactly when none does.
C5_ListStatus ==
    [][\A r \in DOMAIN reqs :
         ListReturns(r) =>
           LET some == \E d \in store : \A k \in {"date", "region"} :
                         Supplied(reqs[r].inp[k]) => d[k] = reqs[r].inp[k]
               q == reqs'[r]
           IN  /\ q.sent = 1
               /\ some  => q.status = 200 /\ q.data # {} /\ q.error = NoError
               /\ ~some => q.status = 404 /\ q.data = {} /\ q.error.msg # ""
               /\ q.status \in {200, 404}]_vars

C5_Witness ==
    \E r \in Lists : reqs[r].err = "" /\ reqs[r].status = 404 /\ store = {}

\* The path segments that are decimal numerals.
Numerals == {"0", "1", "2", "3", "4", "02", "03"}

\* C6: a get-by-id whose path segment is not numeric is answered 404 with
\* the message that names the id, unless the store itself failed.
C6_NonNumericIs404 ==
    \A g \in Gets :
      (reqs[g].pc = "done" /\ reqs[g].inp.id.v \notin Numerals
                           /\ reqs[g].err # "StoreError") =>
        /\ reqs[g].status = 404
        /\ reqs[g].error = [msg |-> "No avocado sales data found for ID",
                            arg |-> reqs[g].inp.id.v]

\* C7: in the step that finishes the seed the store holds exactly the seed
\* dataset.
C7_SeedLeavesOnlySeedData ==
    [][(seedPc # "done" /\ seedPc' = "done") => store' = SeedDocs]_vars

\* C8: the step that answers a create 201 adds exactly one record, the step
\* that answers it 400 or 409 leaves the store as it was, and no step of a
\* create handler changes or removes a stored record.
C8_CreateFrame ==
    [][\A r \in DOMAIN reqs' :
         (reqs'[r].kind = "post" /\ Moved(r)) =>
           /\ store \subseteq store'
           /\ Answered(r) =>
                /\ reqs'[r].status \in {201, 400, 409}
                /\ reqs'[r].status = 201 =>
                     \E d \in reqs'[r].data : d \notin store /\ store' = store \cup {d}
                /\ reqs'[r].status \in {400, 409} => store' = store]_vars

C8_Witness ==
    /\ \E r \in Posts : reqs[r].status = 201
    /\ \E r \in Posts : reqs[r].status = 409
    /\ store # {}

\* C9: a request whose store call raised a failure has exactly one response,
\* with an error message: 500 for list and get-by-id, 409 for a duplicate id
\* on create, 400 for any other failure on create; no request has two.
C9_FailuresAnswered ==
    \A r \in DOMAIN reqs :
      /\ reqs[r].sent <= 1
      /\ reqs[r].pc = "done" => reqs[r].sent = 1
      /\ reqs[r].err # "" =>
           /\ reqs[r].sent = 1
           /\ reqs[r].error.msg # ""
           /\ reqs[r].status =
                IF reqs[r].kind \in {"list", "get"} THEN 500
                ELSE IF reqs[r].err = "E11000" THEN 409 ELSE 400

C9_Witness ==
    /\ \E r \in Posts : reqs[r].err = "E11000"
    /\ \E r \in Gets \cup Lists : reqs[r].err = "StoreError"

\* C10: with the seed enabled the process, once its top level has run,
\* listens whatever failed in the seed (loading the dataset included), and a
\* failed seed has been logged.
C10_SeedFailureOnlyLogged ==
    resetDb =>
      /\ proc # "boot" => proc = "listening"
      /\ seedPc = "failed" => "Failed to seed database" \in log

=============================================================================
